---------------------------- MODULE Spec2Model ----------------------------
(***************************************************************************)
(* A model of gated's evaluation engine: executeGate (src/lib/index.ts),   *)
(* its five hook stages, and the two hook recipes cacheHook and dedupeHook *)
(* (src/hooks/recipes.ts).  JavaScript runs the code of one evaluation     *)
(* without interruption between two awaits, so every action below is one   *)
(* such continuation: it starts where an await of executeGate resumes and  *)
(* ends at the next await that suspends it.                                *)
(***************************************************************************)
EXTENDS Integers, Sequences, FiniteSets, TLC

\* ------------------------------------------------------------------ bounds
\* Number of executeGate calls of the coalescing scenarios.
NumEvals == 3
\* Number of executeGate calls of the single-pipeline scenarios.
PipeEvals == 1

\* ------------------------------------------------------------------ values
\* One record shape for every JavaScript value the engine handles:
\*   undefined, null, a Decision {value: b}, a Decision {variant: s},
\*   a plain boolean b, a plain string s.
Val(kind, b, s) == [kind |-> kind, b |-> b, s |-> s]
Undefined == Val("undefined", FALSE, "")
Null == Val("null", FALSE, "")
BoolDecision(b) == Val("value", b, "")
VariantDecision(s) == Val("variant", FALSE, s)
PlainBool(b) == Val("bool", b, "")
PlainString(s) == Val("string", FALSE, s)

\* Stands for the outcome of a callback that threw or rejected.
Failed == Val("failed", FALSE, "")

IsDecision(v) == v.kind \in {"value", "variant"}
\* JavaScript truthiness of the values a resolve hook can yield.
Truthy(v) == IsDecision(v)

\* An Error object: what it says and the evaluation that created it
\* (two errors are the same object iff both fields agree).
Err(type, e) == [type |-> type, by |-> e]
NoErr == Err("none", 0)

\* An Identity: distinctId is a string or a number.
StrId(s) == [kind |-> "string", s |-> s, n |-> 0]
NumId(n) == [kind |-> "number", s |-> "", n |-> n]
NoIdentity == [kind |-> "null", s |-> "", n |-> 0]

Digits == <<"0", "1", "2", "3", "4", "5", "6", "7", "8", "9">>

\* Number.prototype.toString for a non-negative integer.
RECURSIVE NumToString(_)
NumToString(n) ==
  IF n < 10 THEN Digits[n + 1]
  ELSE NumToString(n \div 10) \o Digits[(n % 10) + 1]

\* A conversion that keeps a number apart from the string of its digits.
TemplateStringTyped(id) == IF id.kind = "number" THEN "#" \o NumToString(id.n) ELSE id.s

\* `${distinctId}` of a template literal.
TemplateString(id) == IF id.kind = "number" THEN NumToString(id.n) ELSE id.s

\* A HookContext: flagKey and identity (null when not resolved).
Context(flagKey, identity) == [flagKey |-> flagKey, identity |-> identity]

getKey(context) ==
  IF context.identity # NoIdentity
    THEN context.flagKey \o ":" \o TemplateString(context.identity)
    ELSE context.flagKey

\* GateOptions: variants is <<>> with hasVariants FALSE when not declared.
Gate(key, defaultValue, hasVariants, variants) ==
  [key |-> key, defaultValue |-> defaultValue,
   hasVariants |-> hasVariants, variants |-> variants]

SeqRange(s) == {s[i] : i \in 1..Len(s)}

\* validateVariant: TRUE iff it returns without throwing.
validateVariant(value, gate) ==
  IF ~gate.hasVariants THEN TRUE ELSE value \in SeqRange(gate.variants)

expectedType(gate) == IF gate.hasVariants THEN "variant" ELSE "boolean"

\* extractDecisionValue: TRUE iff it throws the type mismatch.
extractThrows(decision, gate) ==
  LET isVariant == decision.kind = "variant" IN
  \/ expectedType(gate) = "boolean" /\ isVariant
  \/ expectedType(gate) = "variant" /\ ~isVariant

\* extractDecisionValue: the value it returns when it does not throw.
extractDecisionValue(decision) ==
  IF decision.kind = "variant" THEN PlainString(decision.s)
  ELSE PlainBool(decision.b)

\* ------------------------------------------------------------------ state
VARIABLES
  cfg,      \* the scenario: the gate configuration and what its callbacks may do
  ev,       \* ev[e]: the state of the e-th executeGate call
  pending,  \* pending[i]: the Map of the dedupeHook registered as hooks[i]
  promise,  \* promise[<<i, e>>]: the Promise evaluation e created in hooks[i]
  cache     \* the store behind cacheHook: key -> Decision

vars == <<cfg, ev, pending, promise, cache>>

Stages == {"before", "resolve", "after", "error", "finally"}

hooks == cfg.hooks
\* The executeGate calls of the scenario.
Evals == DOMAIN ev
HookIdx == 1..Len(hooks)

\* The empty Map.
EmptyMap == [k \in {} |-> 0]
Has(map, key) == key \in DOMAIN map
MapSet(map, key, v) == [k \in (DOMAIN map) \cup {key} |-> IF k = key THEN v ELSE map[k]]
\* A Map whose delete removes nothing.
MapDeleteNothing(map, key) == map
\* Map.prototype.delete.
MapDelete(map, key) == [k \in (DOMAIN map) \ {key} |-> map[k]]

\* A Promise<Decision> of dedupeHook; none: not created.
NoPromise == [state |-> "none", val |-> Undefined, err |-> NoErr, by |-> 0, settles |-> 0]
NewPromise == [NoPromise EXCEPT !.state = "pending"]

\* new Promise's resolve function: settles a pending promise, else no effect.
PromiseResolve(p, decision, e) ==
  IF p.state = "pending"
    THEN [p EXCEPT !.state = "fulfilled", !.val = decision, !.by = e, !.settles = @ + 1]
    ELSE [p EXCEPT !.settles = @ + 1]

\* new Promise's reject function.
PromiseReject(p, error, e) ==
  IF p.state = "pending"
    THEN [p EXCEPT !.state = "rejected", !.err = error, !.by = e, !.settles = @ + 1]
    ELSE [p EXCEPT !.settles = @ + 1]

\* The state the hooks share, threaded through one synchronous run of hook
\* callbacks: the maps, the promises, the store, and what hooks.map(...) did
\* (called: the hooks invoked, failed: those that threw or rejected,
\* thrown: a callback threw synchronously, which ends the map, tasks: the
\* hooks whose callback returned a promise).
Shared == [pending |-> pending, promise |-> promise, cache |-> cache,
           called |-> {}, failed |-> {}, thrown |-> FALSE, store |-> 0,
           tasks |-> {}]

\* The state of an executeGate call that has not been made.
IdleEval ==
  [pc |-> "idle",
   gate |-> Gate("", Undefined, FALSE, <<>>),
   override |-> NoIdentity,
   identity |-> NoIdentity,          \* let identity = null
   idx |-> 0,                        \* position of runResolveHooks' loop
   rv |-> [kind |-> "none", val |-> Undefined, pid |-> <<0, 0>>],
   decision |-> Undefined,           \* const decision
   result |-> Undefined,             \* let result
   error |-> NoErr,                  \* the error the catch clause caught
   thrown |-> FALSE,                 \* the awaited run*Hooks promise is rejected
   completion |-> [kind |-> "normal", val |-> Undefined],
   outcome |-> "none", ret |-> Undefined,
   \* history
   identifyCalls |-> 0, decideCalls |-> 0,
   ran |-> [s \in Stages |-> 0],
   called |-> {}, failed |-> {},     \* of the stage that ran last
   invoked |-> [s \in Stages |-> {}], \* the hooks whose callback was called
   provided |-> Undefined,
   delivered |-> [kind |-> "none", val |-> Undefined, err |-> NoErr],
   resolveResult |-> Undefined, afterArg |-> Undefined, errorArg |-> NoErr,
   storeCalls |-> 0,
   answers |-> <<>>,                 \* what each awaited resolve callback yielded
   tasks |-> {},                     \* <<stage, i>>: a callback's promise, not settled
   seen |-> {},                      \* the identities handed to hooks and to decide
   created |-> {}, joined |-> {}, order |-> <<>>]

\* ------------------------------------------------------------------ hooks
\* The hook kinds a gate registers: the two recipes and a user-defined hook
\* that implements all five callbacks.
HookKinds == {"dedupe", "cache", "user"}

\* hook[stage] is defined (hook.stage?.(...) calls something).
HasMethod(kind, stage) ==
  CASE kind = "dedupe" -> stage \in {"resolve", "after", "error"}
    [] kind = "cache" -> stage \in {"resolve", "after"}
    [] OTHER -> TRUE

\* dedupeHook.after without its `if (existing)`: existing.resolve(decision)
\* on an absent entry throws.
dedupeAfterUnchecked(S, i, e, context, decision) ==
  LET key == getKey(context)
      existing == S.pending[i][key]
  IN IF Has(S.pending[i], key)
       THEN [S EXCEPT !.promise[<<i, existing>>] = PromiseResolve(@, decision, e),
                      !.pending[i] = MapDelete(@, key)]
       ELSE [S EXCEPT !.failed = @ \cup {i}, !.thrown = TRUE]

\* dedupeHook.after, run by evaluation e for the hook registered at i.
dedupeAfter(S, i, e, context, decision) ==
  LET key == getKey(context)
      existing == S.pending[i][key]
  IN IF Has(S.pending[i], key)
       THEN [S EXCEPT !.promise[<<i, existing>>] = PromiseResolve(@, decision, e),
                      !.pending[i] = MapDelete(@, key)]
       ELSE S

\* dedupeHook.error without its pending.delete(key).
dedupeErrorKeepsEntry(S, i, e, context, error) ==
  LET key == getKey(context)
      existing == S.pending[i][key]
  IN IF Has(S.pending[i], key)
       THEN [S EXCEPT !.promise[<<i, existing>>] = PromiseReject(@, error, e)]
       ELSE S

\* dedupeHook.error.
dedupeError(S, i, e, context, error) ==
  LET key == getKey(context)
      existing == S.pending[i][key]
  IN IF Has(S.pending[i], key)
       THEN [S EXCEPT !.promise[<<i, existing>>] = PromiseReject(@, error, e),
                      !.pending[i] = MapDelete(@, key)]
       ELSE S

\* cacheHook.after without its check of context.identity.
cacheAfterAnyIdentity(S, i, context, decision, out) ==
  LET T == [S EXCEPT !.tasks = @ \cup {i}] IN
  IF out = "ok"
    THEN [T EXCEPT !.cache = MapSet(@, getKey(context), decision),
                   !.store = @ + 1]
    ELSE [T EXCEPT !.failed = @ \cup {i}, !.store = @ + 1]

\* cacheHook.after; out says whether cache.set succeeds ("ok") or fails.
cacheAfter(S, i, context, decision, out) ==
  LET T == [S EXCEPT !.tasks = @ \cup {i}] IN
  IF context.identity = NoIdentity THEN T
  ELSE IF out = "ok"
    THEN [T EXCEPT !.cache = MapSet(@, getKey(context), decision),
                   !.store = @ + 1]
    ELSE [T EXCEPT !.failed = @ \cup {i}, !.store = @ + 1]

\* A user hook's before/after/error/finally callback: it returns a promise
\* that fulfils ("ok") or rejects ("reject"), or throws ("throw").
userCallback(S, i, out) ==
  CASE out = "ok" -> [S EXCEPT !.tasks = @ \cup {i}]
    [] out = "reject" -> [S EXCEPT !.failed = @ \cup {i}, !.tasks = @ \cup {i}]
    [] OTHER -> [S EXCEPT !.failed = @ \cup {i}, !.thrown = TRUE]

\* hook.stage?.(hookContext, ...) for hooks[i] inside hooks.map(...).
CallHook(i, stage, S, e, context, decision, error, out) ==
  IF ~HasMethod(hooks[i], stage) THEN S
  ELSE LET T == [S EXCEPT !.called = @ \cup {i}] IN
    CASE hooks[i] = "dedupe" /\ stage = "after" -> dedupeAfter(T, i, e, context, decision)
      [] hooks[i] = "dedupe" /\ stage = "error" -> dedupeError(T, i, e, context, error)
      [] hooks[i] = "cache" /\ stage = "after" -> cacheAfter(T, i, context, decision, out)
      [] OTHER -> userCallback(T, i, out)

\* hooks.map((hook) => hook.stage?.(...)) from hook i on: a callback that
\* throws ends the map, the hooks after it are not called.
RECURSIVE MapHooks(_, _, _, _, _, _, _, _)
MapHooks(i, stage, S, e, context, decision, error, outs) ==
  IF i > Len(hooks) \/ S.thrown THEN S
  ELSE MapHooks(i + 1, stage,
                CallHook(i, stage, S, e, context, decision, error, outs[i]),
                e, context, decision, error, outs)

\* What hook i's callback of a stage may do in this scenario.
HookOuts(i, stage) ==
  CASE hooks[i] = "user" -> cfg.userStage
    [] hooks[i] = "cache" /\ stage = "after" /\ cfg.cacheFail -> {"ok", "reject"}
    [] OTHER -> {"ok"}

StageOuts(stage) == {o \in [HookIdx -> {"ok", "reject", "throw"}] :
                       \A i \in HookIdx : o[i] \in HookOuts(i, stage)}

\* runBeforeHooks / runAfterHooks / runErrorHooks / runFinallyHooks up to
\* their await: r is the evaluation's state, the result its new state, now
\* awaiting Promise.allSettled(tasks), and the shared state.
RunStage(r, S0, e, stage, decision, error, outs) ==
  LET S == MapHooks(1, stage,
                    [S0 EXCEPT !.called = {}, !.failed = {}, !.thrown = FALSE,
                               !.tasks = {}],
                    e, Context(r.gate.key, r.identity), decision, error, outs)
  IN [r |-> [r EXCEPT !.pc = stage, !.thrown = S.thrown,
                      !.ran[stage] = @ + 1,
                      !.called = S.called, !.failed = S.failed,
                      !.invoked[stage] = @ \cup S.called,
                      !.storeCalls = @ + S.store,
                      !.tasks = @ \cup {<<stage, i>> : i \in S.tasks},
                      !.seen = @ \cup (IF S.called # {} THEN {r.identity} ELSE {}),
                      !.order = Append(@, stage)],
      S |-> S]

\* What a resolve callback hands to the await of runResolveHooks: a value,
\* a throw or rejection, or (dedupeHook joining) the pending promise pid.
RV(kind, val, pid) == [kind |-> kind, val |-> val, pid |-> pid]
Answer == RV("value", Undefined, <<0, 0>>)
Throw == RV("throw", Undefined, <<0, 0>>)

\* What hook i's resolve callback may do in this scenario (Answer: the
\* recipe's own code decides; Throw for cacheHook: cache.get fails).
ResolveOuts(i) ==
  CASE hooks[i] = "user" -> cfg.userResolve
    [] hooks[i] = "cache" /\ cfg.cacheFail -> {Answer, Throw}
    [] OTHER -> {Answer}

\* dedupeHook.resolve over a `pending` map declared outside the factory:
\* every hook that dedupeHook() returns uses the map of the first.
dedupeResolveShared(r, S, i, e, context) ==
  LET key == getKey(context)
      existing == S.pending[1][key]
  IN IF Has(S.pending[1], key)
       THEN [r |-> [r EXCEPT !.rv = RV("promise", Undefined, <<1, existing>>),
                             !.joined = @ \cup {<<1, existing>>}],
             S |-> S]
       ELSE [r |-> [r EXCEPT !.rv = Answer, !.created = @ \cup {i}],
             S |-> [S EXCEPT !.promise[<<1, e>>] = NewPromise,
                             !.pending[1] = MapSet(@, key, e)]]

\* dedupeHook.resolve up to its await or return.
dedupeResolve(r, S, i, e, context) ==
  LET key == getKey(context)
      existing == S.pending[i][key]
  IN IF Has(S.pending[i], key)
       THEN [r |-> [r EXCEPT !.rv = RV("promise", Undefined, <<i, existing>>),
                             !.joined = @ \cup {<<i, existing>>}],
             S |-> S]
       ELSE [r |-> [r EXCEPT !.rv = Answer, !.created = @ \cup {i}],
             S |-> [S EXCEPT !.promise[<<i, e>>] = NewPromise,
                             !.pending[i] = MapSet(@, key, e)]]

\* cacheHook.resolve: cache.get answers with what the store holds now.
cacheResolve(r, S, i, context, out) ==
  IF context.identity = NoIdentity THEN [r |-> [r EXCEPT !.rv = Answer], S |-> S]
  ELSE LET key == getKey(context)
           got == IF Has(S.cache, key) THEN S.cache[key] ELSE cfg.cacheMiss
       IN [r |-> [r EXCEPT !.rv = IF out = Throw THEN Throw
                                   ELSE RV("value", got, <<0, 0>>),
                           !.storeCalls = @ + 1,
                           !.failed = IF out = Throw THEN @ \cup {i} ELSE @],
           S |-> S]

\* A user hook's resolve callback.
userResolve(r, S, i, out) ==
  [r |-> [r EXCEPT !.rv = out,
                   !.failed = IF out = Throw THEN @ \cup {i} ELSE @],
   S |-> S]

\* runResolveHooks' loop reaches hooks[i]: hook.resolve?.(hookContext) up to
\* the await of its result.
InvokeResolve(r0, S, i, e, out) ==
  LET context == Context(r0.gate.key, r0.identity)
      r == [r0 EXCEPT !.pc = "resolve", !.idx = i, !.thrown = FALSE,
                      !.ran["resolve"] = IF i = 1 THEN @ + 1 ELSE @,
                      !.order = IF i = 1 THEN Append(@, "resolve") ELSE @,
                      !.called = (IF i = 1 THEN {} ELSE @) \cup
                         (IF HasMethod(hooks[i], "resolve") THEN {i} ELSE {}),
                      !.failed = IF i = 1 THEN {} ELSE @,
                      !.invoked["resolve"] =
                         @ \cup (IF HasMethod(hooks[i], "resolve") THEN {i} ELSE {}),
                      !.seen = @ \cup (IF HasMethod(hooks[i], "resolve")
                                         THEN {context.identity} ELSE {})]
  IN CASE hooks[i] = "dedupe" -> dedupeResolve(r, S, i, e, context)
       [] hooks[i] = "cache" -> cacheResolve(r, S, i, context, out)
       [] OTHER -> userResolve(r, S, i, out)

\* ------------------------------------------------------------------ executeGate
\* The catch clause up to its await: runErrorHooks(hooks, {flagKey, identity}, error).
EnterCatch(r, S, e, error, outs) ==
  RunStage([r EXCEPT !.error = error, !.errorArg = error],
           S, e, "error", Undefined, error, outs)

\* The finally clause up to its await: runFinallyHooks(hooks, {flagKey, identity});
\* completion is how the try or catch block ended (normally, by return, by throw).
EnterFinally(r, S, e, completion, outs) ==
  RunStage([r EXCEPT !.completion = completion],
           S, e, "finally", Undefined, NoErr, outs)

Normal == [kind |-> "normal", val |-> Undefined]
Return(v) == [kind |-> "return", val |-> v]
Rethrow == [kind |-> "throw", val |-> Undefined]

\* executeGate from the return of runResolveHooks (lines 151-162).
AfterResolve(r0, S, e, resolveResult, outs) ==
  LET r == [r0 EXCEPT !.resolveResult = resolveResult, !.rv = RV("none", Undefined, <<0, 0>>)] IN
  IF Truthy(resolveResult)
    THEN IF extractThrows(resolveResult, r.gate)
           THEN EnterCatch(r, S, e, Err("TypeMismatch", e), outs)
           ELSE EnterFinally(r, S, e, Return(extractDecisionValue(resolveResult)), outs)
    ELSE [r |-> [r EXCEPT !.pc = "decide", !.decideCalls = @ + 1,
                          !.seen = @ \cup {r.identity},
                          !.order = Append(@, "decide")],
          S |-> S]

\* The callbacks of a stage whose promise evaluation e has not seen settle.
StageTasks(e, stage) == {t \in ev[e].tasks : t[1] = stage}

\* run*Hooks without its await of Promise.allSettled(tasks).
NotAwaited(e, stage) == TRUE

\* await Promise.allSettled(tasks) inside run*Hooks resumes: every task has
\* settled; when hooks.map threw, run*Hooks has rejected without awaiting.
Settled(e, stage) == ev[e].thrown \/ StageTasks(e, stage) = {}

\* The promise a hook callback returned settles.
TaskSettles(e) ==
  /\ \E t \in ev[e].tasks : ev' = [ev EXCEPT ![e].tasks = @ \ {t}]
  /\ UNCHANGED <<cfg, pending, promise, cache>>

\* The variables after one continuation of evaluation e.
Apply(e, X) ==
  /\ ev' = [ev EXCEPT ![e] = X.r]
  /\ pending' = X.S.pending
  /\ promise' = X.S.promise
  /\ cache' = X.S.cache
  /\ UNCHANGED cfg

\* identify without its `if (overrideIdentity) return overrideIdentity`:
\* config.identify is called whether or not an override is given.
StartCallsIdentify(e) ==
  /\ e <= cfg.n
  /\ ev[e].pc = "idle"
  /\ IF e = 1 THEN TRUE
     ELSE IF cfg.sequential THEN ev[e - 1].pc = "done"
     ELSE ev[e - 1].pc # "idle"
  /\ \E gate \in cfg.gates, override \in cfg.overrides :
       ev' = [ev EXCEPT ![e] =
                [@ EXCEPT !.pc = "identify", !.gate = gate, !.override = override,
                          !.identifyCalls = @ + 1,
                          !.order = Append(@, "identify")]]
  /\ UNCHANGED <<cfg, pending, promise, cache>>

\* executeGate is called: identify(config.identify, overrideIdentity) up to
\* its await (config.identify is called only without an override).
Start(e) ==
  /\ e <= cfg.n
  /\ ev[e].pc = "idle"
  /\ IF e = 1 THEN TRUE
     ELSE IF cfg.sequential THEN ev[e - 1].pc = "done"
     ELSE ev[e - 1].pc # "idle"
  /\ \E gate \in cfg.gates, override \in cfg.overrides :
       ev' = [ev EXCEPT ![e] =
                [@ EXCEPT !.pc = "identify", !.gate = gate, !.override = override,
                          !.identifyCalls = IF override # NoIdentity THEN @ ELSE @ + 1,
                          !.order = Append(@, "identify")]]
  /\ UNCHANGED <<cfg, pending, promise, cache>>

\* identify settles: with an identity, runBeforeHooks starts; with null
\* ("Identity not found") or a failure of config.identify, the catch clause.
IdentifyDone(e) ==
  /\ ev[e].pc = "identify"
  /\ \E outs \in StageOuts("before") :
       \/ \E id \in (IF ev[e].override # NoIdentity THEN {ev[e].override}
                     ELSE cfg.identities \ {NoIdentity}) :
            Apply(e, RunStage([ev[e] EXCEPT !.identity = id], Shared, e,
                              "before", Undefined, NoErr, outs))
       \/ /\ ev[e].override = NoIdentity
          /\ \E t \in ((IF NoIdentity \in cfg.identities THEN {"IdentityNotFound"} ELSE {})
                       \cup (IF cfg.identifyFail THEN {"IdentifyFailure"} ELSE {})) :
               Apply(e, EnterCatch(ev[e], Shared, e, Err(t, e), outs))

\* runBeforeHooks settles: runResolveHooks starts with the first hook.
BeforeDone(e) ==
  /\ ev[e].pc = "before"
  /\ Settled(e, "before")
  /\ IF ev[e].thrown
       THEN \E outs \in StageOuts("error") :
              Apply(e, EnterCatch(ev[e], Shared, e, Err("HookThrow", e), outs))
       ELSE IF Len(hooks) = 0
         THEN Apply(e, AfterResolve(ev[e], Shared, e, Undefined, <<>>))
         ELSE \E out \in ResolveOuts(1) :
                Apply(e, InvokeResolve(ev[e], Shared, 1, e, out))

\* runResolveHooks with its try/catch around the loop instead of inside it:
\* a failing resolve callback ends the loop.
EndsOnFailure(throws, value) == ~throws /\ value = Undefined

\* runResolveHooks goes on to the next hook: the awaited callback failed
\* (the catch inside the loop) or yielded undefined.
GoesOn(throws, value) == throws \/ value = Undefined

\* The await of hooks[idx].resolve settles: its value ends the loop unless it
\* is undefined, a failure is swallowed, and the loop goes on to the next hook
\* or ends, where executeGate returns the hook's decision or calls decide.
ResolveStep(e) ==
  LET i == ev[e].idx
      p == promise[ev[e].rv.pid]
      throws == \/ ev[e].rv.kind = "throw"
                \/ ev[e].rv.kind = "promise" /\ p.state = "rejected"
      value == IF ev[e].rv.kind = "promise" THEN p.val ELSE ev[e].rv.val
      q == [ev[e] EXCEPT !.answers = Append(@, IF throws THEN Failed ELSE value)]
      r == IF q.rv.kind # "promise" THEN q
           ELSE [q EXCEPT
                   !.delivered = IF p.state = "rejected"
                                   THEN [kind |-> "error", val |-> Undefined, err |-> p.err]
                                   ELSE [kind |-> "value", val |-> p.val, err |-> NoErr],
                   !.failed = IF p.state = "rejected" THEN @ \cup {i} ELSE @]
      goOn == GoesOn(throws, value)
  IN /\ r.pc = "resolve"
     /\ r.rv.kind = "promise" => p.state \in {"fulfilled", "rejected"}
     /\ IF goOn /\ i < Len(hooks)
          THEN \E out \in ResolveOuts(i + 1) :
                 Apply(e, InvokeResolve(r, Shared, i + 1, e, out))
          ELSE \E outs \in StageOuts("error") :
                 Apply(e, AfterResolve(r, Shared, e,
                                       IF goOn THEN Undefined ELSE value, outs))

\* The await of evaluateDecision settles: decide answered d (which
\* validateVariant accepts or not) or failed; runAfterHooks starts with a
\* decision that passed validateVariant.
DecideDone(e) ==
  /\ ev[e].pc = "decide"
  /\ \E outs \in StageOuts("after") :
       \/ \E d \in cfg.decisions :
            LET r == [ev[e] EXCEPT !.provided = d] IN
            IF d.kind = "variant" /\ ~validateVariant(d.s, r.gate)
              THEN Apply(e, EnterCatch(r, Shared, e, Err("InvalidVariant", e), outs))
              ELSE Apply(e, RunStage([r EXCEPT !.decision = d, !.afterArg = d],
                                     Shared, e, "after", d, NoErr, outs))
       \/ /\ cfg.decideFail
          /\ Apply(e, EnterCatch(ev[e], Shared, e, Err("ProviderFailure", e), outs))

\* runAfterHooks with Promise.all in place of Promise.allSettled: a rejected
\* after callback rejects runAfterHooks and sends executeGate to its catch clause.
AfterDoneAll(e) ==
  /\ ev[e].pc = "after"
  /\ Settled(e, "after")
  /\ \E outs \in StageOuts("error") :
       IF ev[e].thrown \/ ev[e].failed # {}
         THEN Apply(e, EnterCatch(ev[e], Shared, e, Err("HookThrow", e), outs))
         ELSE IF extractThrows(ev[e].decision, ev[e].gate)
           THEN Apply(e, EnterCatch(ev[e], Shared, e, Err("TypeMismatch", e), outs))
           ELSE Apply(e, EnterFinally(
                  [ev[e] EXCEPT !.result = extractDecisionValue(ev[e].decision)],
                  Shared, e, Normal, outs))

\* runAfterHooks settles: result = extractDecisionValue(decision, expectedType),
\* then the finally clause; a type mismatch goes to the catch clause.
AfterDone(e) ==
  /\ ev[e].pc = "after"
  /\ Settled(e, "after")
  /\ \E outs \in StageOuts("error") :
       IF ev[e].thrown
         THEN Apply(e, EnterCatch(ev[e], Shared, e, Err("HookThrow", e), outs))
         ELSE IF extractThrows(ev[e].decision, ev[e].gate)
           THEN Apply(e, EnterCatch(ev[e], Shared, e, Err("TypeMismatch", e), outs))
           ELSE Apply(e, EnterFinally(
                  [ev[e] EXCEPT !.result = extractDecisionValue(ev[e].decision)],
                  Shared, e, Normal, outs))

\* runErrorHooks settles: the finally clause; a rejection of runErrorHooks
\* leaves the catch clause by throw.
ErrorDone(e) ==
  /\ ev[e].pc = "error"
  /\ Settled(e, "error")
  /\ \E outs \in StageOuts("finally") :
       Apply(e, EnterFinally(ev[e], Shared, e,
                             IF ev[e].thrown THEN Rethrow ELSE Normal, outs))

\* runFinallyHooks settles: executeGate's promise settles. A rejection of
\* runFinallyHooks, or else a throw the catch clause left pending, rejects it;
\* else it fulfils with the returned value or with result ?? defaultValue.
FinallyDone(e) ==
  LET r == ev[e] IN
  /\ r.pc = "finally"
  /\ Settled(e, "finally")
  /\ ev' = [ev EXCEPT ![e] =
       IF r.thrown \/ r.completion.kind = "throw"
         THEN [r EXCEPT !.pc = "done", !.outcome = "rejected"]
         ELSE [r EXCEPT !.pc = "done", !.outcome = "fulfilled",
                        !.ret = IF r.completion.kind = "return" THEN r.completion.val
                                ELSE IF r.result # Undefined THEN r.result
                                ELSE r.gate.defaultValue]]
  /\ UNCHANGED <<cfg, pending, promise, cache>>

\* ------------------------------------------------------------------ scenarios
BetaGate == Gate("beta", PlainBool(TRUE), FALSE, <<>>)
ThemeGate == Gate("theme", PlainString("light"), TRUE, <<"light", "dark">>)

\* The plainest scenario: one call of a boolean gate without hooks, whose
\* identify and decide succeed.  The scenarios below widen it.
Plain ==
  [n |-> 1,                         \* executeGate calls
   sequential |-> FALSE,            \* a call is made only after the previous returned
   hooks |-> <<>>,                  \* config.hooks, by kind
   gates |-> {BetaGate},            \* the options the gate is called with
   overrides |-> {NoIdentity},      \* overrideIdentity (NoIdentity: none given)
   identities |-> {StrId("42")},    \* what config.identify may resolve to
   identifyFail |-> FALSE,          \* config.identify may throw
   decisions |-> {BoolDecision(TRUE)},  \* what config.decide may resolve to
   decideFail |-> FALSE,            \* config.decide may throw
   userStage |-> {"ok"},            \* what a user hook's stage callbacks may do
   userResolve |-> {Answer},        \* what a user hook's resolve may do
   cacheFail |-> FALSE,             \* cache.get and cache.set may fail
   cacheMiss |-> Undefined,         \* what cache.get yields on a miss
   store |-> EmptyMap]              \* what the store holds at the start

\* What a user hook's resolve callback may do: yield undefined, null or a
\* decision, or fail.
UserResolveOuts ==
  {RV("value", v, <<0, 0>>) :
     v \in {Undefined, Null, BoolDecision(FALSE), VariantDecision("dark")}}
  \cup {Throw}

\* Overlapping evaluations of one boolean gate that registers dedupeHook, for
\* one identity: the provider answers false or a variant (which a boolean
\* gate rejects), or fails.
DedupeConfigs ==
  {[Plain EXCEPT !.n = NumEvals, !.hooks = <<"dedupe">>,
                 !.decisions = {BoolDecision(FALSE), VariantDecision("dark")},
                 !.decideFail = TRUE]}

\* The same gate with a provider that answers as the gate's type expects or
\* fails, and with one evaluation less the provider of DedupeConfigs.
CoalesceConfigs ==
  {[Plain EXCEPT !.n = NumEvals, !.hooks = <<"dedupe">>,
                 !.decisions = {BoolDecision(TRUE), BoolDecision(FALSE)},
                 !.decideFail = TRUE]}
  \cup {[c EXCEPT !.n = NumEvals - 1] : c \in DedupeConfigs}

\* Overlapping evaluations of that gate whose identify resolves to the
\* number 42 or to the string "42".
CanonConfigs ==
  {[Plain EXCEPT !.n = NumEvals - 1, !.hooks = <<"dedupe">>,
                 !.identities = {NumId(42), StrId("42")},
                 !.decisions = {BoolDecision(TRUE), BoolDecision(FALSE)},
                 !.decideFail = TRUE]}

\* Overlapping evaluations of two boolean gates whose flag keys are "beta"
\* and "beta:4", for the distinct ids "42" and "4:42".
KeyConfigs ==
  {[Plain EXCEPT !.n = NumEvals - 1, !.hooks = <<"dedupe">>,
                 !.gates = {BetaGate, Gate("beta:4", PlainBool(FALSE), FALSE, <<>>)},
                 !.identities = {StrId("42"), StrId("4:42")},
                 !.decisions = {BoolDecision(TRUE), BoolDecision(FALSE)}]}

\* Evaluations of that gate for one identity, each made after the previous
\* one returned, with dedupeHook alone or before a user hook whose resolve
\* may yield a decision; the provider answers a boolean or a variant, or fails.
SequentialConfigs ==
  {[Plain EXCEPT !.n = PipeEvals + 1, !.sequential = TRUE, !.hooks = hs,
                 !.decisions = {BoolDecision(TRUE), BoolDecision(FALSE),
                                VariantDecision("dark")},
                 !.decideFail = TRUE,
                 !.userResolve = {Answer, RV("value", BoolDecision(TRUE), <<0, 0>>)}] :
     hs \in {<<"dedupe">>, <<"dedupe", "user">>}}

\* Evaluations of that gate with or without an override identity: identify
\* resolves to an identity or to null, or fails; the callbacks of the user
\* hook fulfil, reject or throw; the provider answers or fails.
OverrideConfigs ==
  {[Plain EXCEPT !.n = PipeEvals, !.sequential = TRUE, !.hooks = <<"user">>,
                 !.overrides = {NoIdentity, StrId("7")},
                 !.identities = {StrId("42"), NoIdentity},
                 !.identifyFail = TRUE,
                 !.decisions = {BoolDecision(FALSE)},
                 !.decideFail = TRUE,
                 !.userStage = {"ok", "reject", "throw"},
                 !.userResolve = {Answer, Throw,
                                  RV("value", BoolDecision(TRUE), <<0, 0>>)}]}

\* Overlapping or successive evaluations of that gate for one identity, with
\* dedupeHook registered before or after cacheHook, over a store that is
\* empty or holds a decision under the evaluations' key; the provider
\* answers or fails.
OrderConfigs ==
  {[Plain EXCEPT !.n = PipeEvals + 1, !.hooks = hs,
                 !.decisions = {BoolDecision(FALSE)},
                 !.decideFail = TRUE,
                 !.store = st] :
     hs \in {<<"dedupe", "cache">>, <<"cache", "dedupe">>},
     st \in {EmptyMap, MapSet(EmptyMap, "beta:42", BoolDecision(TRUE))}}

\* Evaluations of the variant gate with cacheHook or a user resolve hook: the
\* store is empty or holds, from an earlier deployment that declared it, the
\* variant "purple"; the user hook and the provider may answer "purple" too.
VariantConfigs ==
  {[Plain EXCEPT !.n = PipeEvals + 1, !.sequential = TRUE, !.hooks = hs,
                 !.gates = {ThemeGate},
                 !.decisions = {BoolDecision(FALSE), VariantDecision("dark"),
                                VariantDecision("purple")},
                 !.decideFail = TRUE,
                 !.userResolve = {Answer, RV("value", VariantDecision("dark"), <<0, 0>>),
                                  RV("value", VariantDecision("purple"), <<0, 0>>)},
                 !.store = st] :
     hs \in {<<"cache">>, <<"user">>},
     st \in {EmptyMap, MapSet(EmptyMap, "theme:42", VariantDecision("purple"))}}

\* One evaluation of the gate with a user hook, whose callbacks return
\* promises, registered after dedupeHook.
SoloConfigs ==
  {[Plain EXCEPT !.hooks = <<"dedupe", "user">>, !.decideFail = TRUE]}

\* Evaluations of a boolean or a variant gate, one after the other.
\* Validation: every answer of the provider and of a user hook's resolve.
ValidationConfigs ==
  {[Plain EXCEPT !.n = PipeEvals, !.sequential = TRUE, !.hooks = hs,
                 !.gates = {BetaGate, ThemeGate},
                 !.decisions = {BoolDecision(TRUE), BoolDecision(FALSE),
                                VariantDecision("dark"), VariantDecision("purple")},
                 !.decideFail = TRUE,
                 !.userResolve = UserResolveOuts] :
     hs \in {<<>>, <<"user">>, <<"user", "dedupe">>, <<"dedupe", "user">>}}

\* Hook failures: every outcome of a user hook's callbacks in every stage.
FailureConfigs ==
  {[Plain EXCEPT !.n = PipeEvals, !.sequential = TRUE, !.hooks = hs,
                 !.identities = {StrId("42"), NoIdentity},
                 !.identifyFail = TRUE,
                 !.gates = {BetaGate, ThemeGate},
                 !.decisions = {BoolDecision(FALSE), VariantDecision("dark"),
                                VariantDecision("purple")},
                 !.decideFail = TRUE,
                 !.userStage = {"ok", "reject", "throw"},
                 !.userResolve = {Answer, Throw,
                                  RV("value", BoolDecision(FALSE), <<0, 0>>)}] :
     hs \in {<<"user">>, <<"user", "user">>}}

\* Two user hooks on a boolean gate whose provider answers false: their
\* callbacks fulfil or reject, and their resolve yields undefined, a decision
\* or a failure; or their callbacks fulfil or throw.
HookConfigs ==
  {[Plain EXCEPT !.n = PipeEvals, !.sequential = TRUE,
                 !.hooks = <<"user", "user">>,
                 !.decisions = {BoolDecision(FALSE)},
                 !.userStage = {"ok", "reject"},
                 !.userResolve = {Answer, Throw,
                                  RV("value", BoolDecision(TRUE), <<0, 0>>)}],
   [Plain EXCEPT !.n = PipeEvals, !.sequential = TRUE,
                 !.hooks = <<"user", "user">>,
                 !.decisions = {BoolDecision(FALSE)},
                 !.userStage = {"ok", "throw"},
                 !.userResolve = {Answer, Throw}]}

\* Evaluations of one boolean gate that registers cacheHook, alone or before
\* a user hook, one after the other for one identity and over a store that
\* starts empty: the store's get answers undefined or null on a miss and its
\* get and set may fail; the provider answers false or a variant, or fails.
CacheConfigs ==
  {[Plain EXCEPT !.n = PipeEvals + 1, !.sequential = TRUE, !.hooks = hs,
                 !.decisions = {BoolDecision(FALSE), VariantDecision("dark")},
                 !.decideFail = TRUE,
                 !.userResolve = {Answer, RV("value", BoolDecision(TRUE), <<0, 0>>)},
                 !.cacheFail = TRUE,
                 !.cacheMiss = miss] :
     hs \in {<<"cache">>, <<"cache", "user">>}, miss \in {Undefined, Null}}

PipelineConfigs == ValidationConfigs \cup FailureConfigs

InitWith(configs) ==
  /\ cfg \in configs
  /\ ev = [e \in 1..cfg.n |-> IdleEval]
  /\ pending = [i \in 1..Len(cfg.hooks) |-> EmptyMap]
  /\ promise = [pid \in (1..Len(cfg.hooks)) \X (1..cfg.n) |-> NoPromise]
  /\ cache = cfg.store

Init == InitWith(DedupeConfigs \cup SoloConfigs)

Next ==
  \/ \E e \in Evals : Start(e)
  \/ \E e \in Evals : IdentifyDone(e)
  \/ \E e \in Evals : BeforeDone(e)
  \/ \E e \in Evals : ResolveStep(e)
  \/ \E e \in Evals : DecideDone(e)
  \/ \E e \in Evals : AfterDone(e)
  \/ \E e \in Evals : ErrorDone(e)
  \/ \E e \in Evals : FinallyDone(e)
  \/ \E e \in Evals : TaskSettles(e)

Spec == Init /\ [][Next]_vars

InitCoalesce == InitWith(CoalesceConfigs \cup SoloConfigs)
SpecCoalesce == InitCoalesce /\ [][Next]_vars

InitHooks == InitWith(HookConfigs)
SpecHooks == InitHooks /\ [][Next]_vars

InitCanon == InitWith(CanonConfigs \cup SoloConfigs)
SpecCanon == InitCanon /\ [][Next]_vars

InitKeys == InitWith(KeyConfigs \cup SoloConfigs)
SpecKeys == InitKeys /\ [][Next]_vars

InitSequential == InitWith(SequentialConfigs)
SpecSequential == InitSequential /\ [][Next]_vars

InitIdentity == InitWith(OverrideConfigs)
SpecIdentity == InitIdentity /\ [][Next]_vars

\* Every continuation that can run does run: identify, decide, the store and
\* the promises of hook callbacks settle, and the event loop resumes whoever
\* awaits a settled promise.
InitOrder == InitWith(OrderConfigs)
SpecOrder == InitOrder /\ [][Next]_vars /\ WF_vars(Next)

InitVariant == InitWith(VariantConfigs)
SpecVariant == InitVariant /\ [][Next]_vars

InitCache == InitWith(CacheConfigs)
SpecCache == InitCache /\ [][Next]_vars

InitPipeline == InitWith(PipelineConfigs)
SpecPipeline == InitPipeline /\ [][Next]_vars

\* --------------------------------------------------- recipe callbacks, called directly
\* A recipe's callbacks are public: a caller holds the hook object and calls
\* hook.resolve?.(context), hook.after?.(context, decision) or
\* hook.error?.(context, error) itself, with any context.  Each entry of ev is
\* then one such call.

\* The caller calls hooks[i].resolve?.(context) and awaits the result.
CallResolve(e) ==
  /\ ev[e].pc = "idle"
  /\ IF e = 1 THEN TRUE ELSE ev[e - 1].pc # "idle"
  /\ \E gate \in cfg.gates, id \in cfg.identities, i \in HookIdx :
       \E out \in ResolveOuts(i) :
         Apply(e, InvokeResolve([ev[e] EXCEPT !.gate = gate, !.identity = id],
                                Shared, i, e, out))

\* The caller's await of hook.resolve's result settles.
ResolveSettles(e) ==
  LET p == promise[ev[e].rv.pid]
      throws == \/ ev[e].rv.kind = "throw"
                \/ ev[e].rv.kind = "promise" /\ p.state = "rejected"
      value == IF ev[e].rv.kind = "promise" THEN p.val ELSE ev[e].rv.val
  IN /\ ev[e].pc = "resolve"
     /\ ev[e].rv.kind = "promise" => p.state \in {"fulfilled", "rejected"}
     /\ ev' = [ev EXCEPT ![e].pc = "done",
                         ![e].answers = Append(@, IF throws THEN Failed ELSE value),
                         ![e].rv = RV("none", Undefined, <<0, 0>>)]
     /\ UNCHANGED <<cfg, pending, promise, cache>>

\* The caller calls hooks[i].after?.(context, decision) or
\* hooks[i].error?.(context, error) and awaits the result.
CallStage(e, stage, decisions, errors) ==
  /\ ev[e].pc = "idle"
  /\ IF e = 1 THEN TRUE ELSE ev[e - 1].pc # "idle"
  /\ \E gate \in cfg.gates, id \in cfg.identities, i \in HookIdx :
       \E out \in HookOuts(i, stage), d \in decisions, err \in errors :
         LET S == CallHook(i, stage, Shared, e, Context(gate.key, id), d, err, out) IN
         Apply(e, [r |-> [ev[e] EXCEPT !.gate = gate, !.identity = id,
                                       !.pc = "done", !.idx = i,
                                       !.ran[stage] = @ + 1,
                                       !.called = S.called, !.failed = S.failed,
                                       !.thrown = S.thrown,
                                       !.invoked[stage] = S.called,
                                       !.storeCalls = @ + S.store,
                                       !.tasks = {<<stage, k>> : k \in S.tasks},
                                       !.afterArg = d, !.errorArg = err,
                                       !.seen = IF S.called # {} THEN {id} ELSE {},
                                       !.order = Append(@, stage)],
                   S |-> S])

CallAfter(e) == CallStage(e, "after", cfg.decisions, {NoErr})

CallError(e) == CallStage(e, "error", {Undefined}, {Err("ProviderFailure", e)})

\* Direct calls on one cacheHook or one dedupeHook, for two flag keys and
\* for absent, string and number identities.
CallConfigs ==
  {[Plain EXCEPT !.n = PipeEvals + 1, !.hooks = hs,
                 !.gates = {BetaGate, Gate("beta:4", PlainBool(TRUE), FALSE, <<>>)},
                 !.identities = {NoIdentity, StrId("42"), NumId(2)},
                 !.decisions = {BoolDecision(FALSE)},
                 !.cacheFail = TRUE,
                 !.store = st] :
     hs \in {<<"cache">>, <<"dedupe">>},
     st \in {EmptyMap, MapSet(EmptyMap, "beta", BoolDecision(TRUE))}}

InitCalls == InitWith(CallConfigs)

\* Direct calls on two hooks returned by two dedupeHook() calls and on one
\* cacheHook, for one flag key and an identity that is present or absent.
InstanceConfigs ==
  {[Plain EXCEPT !.n = PipeEvals + 2,
                 !.hooks = <<"dedupe", "dedupe", "cache">>,
                 !.identities = {StrId("42"), NoIdentity},
                 !.decisions = {BoolDecision(FALSE)}]}

InitInstances == InitWith(InstanceConfigs)

NextCalls ==
  \/ \E e \in Evals : CallResolve(e)
  \/ \E e \in Evals : ResolveSettles(e)
  \/ \E e \in Evals : CallAfter(e)
  \/ \E e \in Evals : CallError(e)
  \/ \E e \in Evals : TaskSettles(e)

SpecCalls == InitCalls /\ [][NextCalls]_vars

SpecInstances == InitInstances /\ [][NextCalls]_vars

\* ------------------------------------------------------------------ claims
Done(e) == ev[e].pc = "done"
\* executeGate has entered its finally clause or returned.
PastTry(e) == ev[e].pc \in {"finally", "done"}

\* C1: executeGate never rejects to its caller: whatever identify, decide and
\* the hook callbacks do (return, throw, reject), every call that completes
\* fulfils, with the decision's value or with options.defaultValue.
C1_NeverRejects ==
  \A e \in Evals :
    Done(e) => /\ ev[e].outcome = "fulfilled"
               /\ \/ ev[e].ret = ev[e].gate.defaultValue
                  \/ /\ IsDecision(ev[e].decision)
                     /\ ev[e].ret = extractDecisionValue(ev[e].decision)
                  \/ /\ IsDecision(ev[e].resolveResult)
                     /\ ev[e].ret = extractDecisionValue(ev[e].resolveResult)

\* The dedupeHook instances of the gate.
DedupeIdx == {i \in HookIdx : hooks[i] = "dedupe"}
\* The composite key of evaluation e.
KeyOf(e) == getKey(Context(ev[e].gate.key, ev[e].identity))
\* Evaluation e's decide call is in flight.
Deciding(e) == ev[e].pc = "decide"
\* Evaluation j awaited, in dedupeHook i, the promise evaluation c created.
JoinedTo(j, i, c) == <<i, c>> \in ev[j].joined

\* C2: evaluations that joined the entry of a creator whose provider call
\* succeeds do not call decide, and return what the creator returns: one
\* decide call serves them all.
C2_CoalescedOnce ==
  \A i \in DedupeIdx : \A c, j \in Evals :
    (JoinedTo(j, i, c) /\ Done(j) /\ Done(c) /\ IsDecision(ev[c].provided))
      => /\ ev[j].decideCalls = 0
         /\ ev[c].decideCalls = 1
         /\ ev[j].ret = ev[c].ret

\* C3: with dedupeHook registered, at most one decide call is in flight per
\* composite key.
C3_OneDecidePerKey ==
  \A e1, e2 \in Evals :
    (Deciding(e1) /\ Deciding(e2) /\ KeyOf(e1) = KeyOf(e2)) => e1 = e2

\* Evaluation j is suspended in dedupeHook i's resolve on the promise that
\* evaluation c created, which is not settled.
Waiting(j, i, c) ==
  /\ ev[j].pc = "resolve" /\ ev[j].rv.kind = "promise" /\ ev[j].rv.pid = <<i, c>>
  /\ promise[<<i, c>>].state = "pending"

\* No entry of a pending map holds a promise that is already settled.
EntriesPending ==
  \A i \in DedupeIdx : \A k \in DOMAIN pending[i] :
    promise[<<i, pending[i][k]>>].state = "pending"

\* C4: when a creator's provider call fails while callers are joined on its
\* entry, that step rejects the entry with the error object the error
\* callback is given and removes the key; each joined caller's resolve then
\* fails with that same error object; and the map never holds a settled
\* entry, so a later resolve for the key does not join the failed request.
C4_FailureFansOut ==
  /\ [][\A i \in DedupeIdx : \A c \in Evals :
          /\ (/\ ev[c].pc = "decide" /\ ev'[c].pc = "error"
              /\ \E j \in Evals : Waiting(j, i, c))
               => /\ promise'[<<i, c>>].state = "rejected"
                  /\ promise'[<<i, c>>].err = ev'[c].errorArg
                  /\ ev'[c].errorArg.by = c
                  /\ ~Has(pending'[i], KeyOf(c))
          /\ \A j \in Evals :
               (/\ ev[j].pc = "resolve" /\ ev[j].rv = RV("promise", Undefined, <<i, c>>)
                /\ promise[<<i, c>>].state = "rejected"
                /\ ev'[j] # ev[j])
                 => /\ ev'[j].delivered.kind = "error"
                    /\ ev'[j].delivered.err = promise[<<i, c>>].err]_vars
  /\ []EntriesPending

\* C4 witness: a caller that joined a creator's entry has been woken with the
\* provider failure of that creator, and the key is gone from the map.
C4_Witness ==
  \E i \in DedupeIdx : \E c, j \in Evals :
    /\ JoinedTo(j, i, c)
    /\ ev[c].errorArg = Err("ProviderFailure", c)
    /\ ev[j].delivered = [kind |-> "error", val |-> Undefined, err |-> ev[c].errorArg]
    /\ ~Has(pending[i], KeyOf(c))

\* Evaluation e created an entry in dedupeHook i and has neither run its
\* after or error stage nor returned.
Creating(e, i) ==
  /\ i \in ev[e].created
  /\ ev[e].ran["after"] = 0 /\ ev[e].ran["error"] = 0
  /\ ~Done(e)

\* C5: a key is in the pending map iff the evaluation that inserted it is
\* still in flight: it has not run its after or error stage and not returned.
C5_PendingIffInFlight ==
  \A i \in DedupeIdx :
    /\ \A k \in DOMAIN pending[i] :
         Creating(pending[i][k], i) /\ KeyOf(pending[i][k]) = k
    /\ \A e \in Evals :
         Creating(e, i) => (Has(pending[i], KeyOf(e)) /\ pending[i][KeyOf(e)] = e)

\* C6: an entry is settled only by the after or error stage of the evaluation
\* that created it.
C6_SettledByCreator ==
  \A i \in DedupeIdx : \A c \in Evals :
    promise[<<i, c>>].state \in {"fulfilled", "rejected"}
      => promise[<<i, c>>].by = c

\* C7: for each key at most one in-flight evaluation is a creator that has
\* not reached its after or error stage.
C7_OneCreatorPerKey ==
  \A i \in DedupeIdx : \A c1, c2 \in Evals :
    (Creating(c1, i) /\ Creating(c2, i) /\ KeyOf(c1) = KeyOf(c2)) => c1 = c2

\* C8: in every evaluation exactly one of the after stage and the error stage
\* runs, and it has completed before the finally stage starts.
C8_AfterXorError ==
  \A e \in Evals :
    PastTry(e) => /\ ev[e].ran["after"] + ev[e].ran["error"] = 1
                  /\ ev[e].order[Len(ev[e].order)] = "finally"

\* The hooks that implement a stage's callback.
Implementing(stage) == {i \in HookIdx : HasMethod(hooks[i], stage)}

\* C9: an evaluation that obtains a successful decision, from a resolve hook
\* or from the provider, has invoked every registered after hook with that
\* decision before its finally stage.
C9_AfterOnEverySuccess ==
  \A e \in Evals :
    (/\ ev[e].pc = "finally"
     /\ ev[e].ran["error"] = 0
     /\ IsDecision(ev[e].resolveResult) \/ IsDecision(ev[e].decision))
      => /\ ev[e].ran["after"] = 1
         /\ ev[e].invoked["after"] = Implementing("after")
         /\ ev[e].afterArg = (IF IsDecision(ev[e].resolveResult)
                                THEN ev[e].resolveResult ELSE ev[e].decision)

\* The decision passes both validations of its gate.
ValidFor(decision, gate) ==
  /\ decision.kind = "variant" => validateVariant(decision.s, gate)
  /\ ~extractThrows(decision, gate)

\* C10: the after hooks are only given a decision that passes validation, and
\* an evaluation that invoked an after hook returns that decision's value.
C10_AfterOnlyValid ==
  \A e \in Evals :
    ev[e].invoked["after"] # {}
      => /\ ValidFor(ev[e].afterArg, ev[e].gate)
         /\ Done(e) => /\ ev[e].outcome = "fulfilled"
                       /\ ev[e].ret = extractDecisionValue(ev[e].afterArg)

\* The finally stage ran once and no other stage of evaluation e has started
\* since.
FinallyLast(e) ==
  /\ ev[e].ran["finally"] = 1
  /\ ev[e].order[Len(ev[e].order)] = "finally"

\* C11: the finally stage runs exactly once in every evaluation, when every
\* other stage has completed (none of the promises their callbacks returned
\* is unsettled) and before executeGate returns.
C11_FinallyOnceLast ==
  \A e \in Evals :
    IF PastTry(e)
      THEN /\ FinallyLast(e)
           /\ \A t \in ev[e].tasks : t[1] = "finally"
      ELSE ev[e].ran["finally"] = 0

\* C12: no resolve hook of an evaluation is invoked while the promise of a
\* before callback of that evaluation is unsettled.
C12_BeforeSettlesFirst ==
  \A e \in Evals :
    ev[e].invoked["resolve"] # {} => StageTasks(e, "before") = {}

\* C12 witness: a resolve hook is invoked in an evaluation whose before
\* stage called the callbacks of two hooks, which both returned a promise.
C12_Witness ==
  \E e \in Evals :
    /\ ev[e].invoked["resolve"] # {}
    /\ Cardinality(ev[e].invoked["before"]) = 2
    /\ ev[e].pc = "resolve"
    /\ ev[e].ran["before"] = 1

\* runResolveHooks of evaluation e has returned.
ResolveReturned(e) == ev[e].ran["resolve"] = 1 /\ ev[e].pc # "resolve"

\* C13: resolve hooks are invoked one at a time in registration order, each
\* after the previous one settled; none is invoked after a hook that yielded
\* a decision; and runResolveHooks returns the decision of the first hook that
\* yields one, or nothing once every hook was asked and none yielded one.
C13_FirstDecisionWins ==
  \A e \in Evals :
    LET a == ev[e].answers
        inv == ev[e].invoked["resolve"]
    IN /\ IF ev[e].pc = "resolve" THEN inv = 1..(Len(a) + 1) ELSE inv = 1..Len(a)
       /\ \A k \in 1..(Len(a) - 1) : ~IsDecision(a[k])
       /\ ResolveReturned(e) =>
            IF IsDecision(a[Len(a)])
              THEN ev[e].resolveResult = a[Len(a)]
              ELSE Len(a) = Len(hooks) /\ ~IsDecision(ev[e].resolveResult)

\* The await of a resolve callback of evaluation e settles in this step, and
\* the callback has failed.
ResolveFails(e) ==
  /\ ev[e].pc = "resolve"
  /\ Len(ev'[e].answers) = Len(ev[e].answers) + 1
  /\ ev'[e].answers[Len(ev'[e].answers)] = Failed

\* C14: when a resolve callback throws or rejects, that step invokes the next
\* resolve hook, or calls decide if none remains, as it does for a callback
\* that yields undefined; it does not start the error stage; and an
\* evaluation in which a resolve hook failed and the error stage did not run
\* returns the value of the decision it obtained.
C14_ResolveFailureIsAbsent ==
  /\ [][\A e \in Evals :
          ResolveFails(e) =>
            /\ ev'[e].ran["error"] = ev[e].ran["error"]
            /\ IF ev[e].idx < Len(hooks)
                 THEN /\ ev'[e].pc = "resolve" /\ ev'[e].idx = ev[e].idx + 1
                      /\ ev'[e].idx \in ev'[e].invoked["resolve"]
                 ELSE /\ ev'[e].pc = "decide" /\ ev'[e].decideCalls = 1
                      /\ ev'[e].resolveResult = Undefined]_vars
  /\ [](\A e \in Evals :
          (/\ Done(e) /\ ev[e].outcome = "fulfilled"
           /\ \E k \in 1..Len(ev[e].answers) : ev[e].answers[k] = Failed
           /\ ev[e].ran["error"] = 0)
            => \/ /\ IsDecision(ev[e].resolveResult)
                  /\ ev[e].ret = extractDecisionValue(ev[e].resolveResult)
               \/ /\ ~IsDecision(ev[e].resolveResult) /\ IsDecision(ev[e].decision)
                  /\ ev[e].ret = extractDecisionValue(ev[e].decision))

\* C14 witness: an evaluation whose two resolve hooks both failed called
\* decide, ran no error stage, and returned the provider's decision's value.
C14_Witness ==
  \E e \in Evals :
    /\ Done(e) /\ ev[e].answers = <<Failed, Failed>>
    /\ ev[e].decideCalls = 1 /\ ev[e].ran["error"] = 0
    /\ ev[e].ret = extractDecisionValue(ev[e].provided)

\* A resolve hook of evaluation e yielded a decision.
HookDecided(e) == \E k \in 1..Len(ev[e].answers) : IsDecision(ev[e].answers[k])

\* C15: an evaluation calls decide at most once; it calls it only with a
\* resolved identity and when no resolve hook yielded a decision; and an
\* evaluation that resolved its identity and got no decision from a resolve
\* hook has called decide by the time it returns.
C15_DecideExactlyWhenNeeded ==
  \A e \in Evals :
    /\ ev[e].decideCalls <= 1
    /\ ev[e].decideCalls = 1 => (ev[e].identity # NoIdentity /\ ~HookDecided(e))
    /\ (Done(e) /\ ev[e].identity # NoIdentity /\ ~HookDecided(e))
         => ev[e].decideCalls = 1

\* The stages whose callbacks run inside hooks.map(...).
MapStages == {"before", "after", "error", "finally"}

\* C16: in the before, after, error and finally stages a failing callback
\* keeps no other hook of the stage from being invoked, does not start the
\* error stage, and does not change what the evaluation returns: an
\* evaluation whose provider decision passes validation returns its value.
C16_HookFailureSuppressed ==
  \A e \in Evals :
    /\ \A stage \in MapStages :
         ev[e].ran[stage] > 0 => ev[e].invoked[stage] = Implementing(stage)
    /\ ev[e].ran["error"] > 0 => ev[e].errorArg.type # "HookThrow"
    /\ (Done(e) /\ IsDecision(ev[e].provided) /\ ValidFor(ev[e].provided, ev[e].gate))
         => /\ ev[e].outcome = "fulfilled"
            /\ ev[e].ret = extractDecisionValue(ev[e].provided)

\* Identity resolution of evaluation e failed: identify threw what the catch
\* clause caught.
IdentityFailed(e) == ev[e].errorArg.type \in {"IdentityNotFound", "IdentifyFailure"}

\* C17: an evaluation whose identity resolution fails runs no before, resolve
\* or after hook and does not call decide; every error hook is invoked, with
\* the failure and a context whose identity is null; then the finally hooks
\* run and the evaluation returns defaultValue.
C17_IdentityFailure ==
  \A e \in Evals :
    IdentityFailed(e) =>
      /\ ev[e].identity = NoIdentity /\ ev[e].override = NoIdentity
      /\ ev[e].ran["before"] = 0 /\ ev[e].ran["resolve"] = 0 /\ ev[e].ran["after"] = 0
      /\ ev[e].decideCalls = 0
      /\ ev[e].ran["error"] = 1 /\ ev[e].invoked["error"] = Implementing("error")
      /\ PastTry(e) => FinallyLast(e)
      /\ Done(e) => /\ ev[e].invoked["finally"] = Implementing("finally")
                    /\ ev[e].outcome = "fulfilled"
                    /\ ev[e].ret = ev[e].gate.defaultValue

\* decide answered evaluation e with a variant that its gate does not declare.
InvalidVariantAnswered(e) ==
  /\ ev[e].provided.kind = "variant"
  /\ ~validateVariant(ev[e].provided.s, ev[e].gate)

\* C18: when decide answers a variant that the gate's declared set does not
\* hold, every error hook is invoked with the invalid-variant failure and the
\* evaluation returns defaultValue; no other answer (a boolean decision, any
\* variant for a gate without declared variants) raises that failure.
C18_InvalidVariant ==
  \A e \in Evals :
    /\ InvalidVariantAnswered(e) =>
         /\ ev[e].errorArg = Err("InvalidVariant", e)
         /\ ev[e].ran["error"] = 1 /\ ev[e].invoked["error"] = Implementing("error")
         /\ ev[e].ran["after"] = 0
         /\ Done(e) => (ev[e].outcome = "fulfilled" /\ ev[e].ret = ev[e].gate.defaultValue)
    /\ ev[e].errorArg.type = "InvalidVariant" =>
         (InvalidVariantAnswered(e) /\ ev[e].gate.hasVariants)

\* The decision evaluation e obtained: a resolve hook's, or else the one
\* evaluateDecision returned.
Obtained(e) ==
  IF IsDecision(ev[e].resolveResult) THEN ev[e].resolveResult ELSE ev[e].decision

\* C19: when the decision an evaluation obtained is a variant for a boolean
\* gate or a boolean for a variant gate, the evaluation ends: its error hooks
\* are invoked once, with the type-mismatch failure, and it returns
\* defaultValue.
C19_TypeMismatch ==
  \A e \in Evals :
    (/\ IsDecision(Obtained(e)) /\ extractThrows(Obtained(e), ev[e].gate)
     /\ ev[e].pc \in {"error", "finally", "done"})
      => /\ ev[e].errorArg = Err("TypeMismatch", e)
         /\ ev[e].ran["error"] = 1 /\ ev[e].invoked["error"] = Implementing("error")
         /\ Done(e) => (ev[e].outcome = "fulfilled" /\ ev[e].ret = ev[e].gate.defaultValue)

\* C20: an evaluation that resolved its identity, got no decision from a
\* resolve hook and got from decide a decision that passes validation
\* returns that decision's value.
C20_ReturnsDecisionValue ==
  \A e \in Evals :
    (/\ Done(e) /\ ev[e].identity # NoIdentity /\ ~HookDecided(e)
     /\ IsDecision(ev[e].provided) /\ ValidFor(ev[e].provided, ev[e].gate))
      => /\ ev[e].outcome = "fulfilled"
         /\ ev[e].ret = extractDecisionValue(ev[e].provided)
         /\ ev[e].decideCalls = 1

\* The positions of cacheHook in the gate's hook list.
CacheIdx == {i \in HookIdx : hooks[i] = "cache"}

\* Cache.get answered evaluation e's cacheHook.resolve at position i with a decision.
CacheHit(e, i) ==
  /\ i \in CacheIdx /\ i <= Len(ev[e].answers)
  /\ IsDecision(ev[e].answers[i])

\* C21: an evaluation whose cacheHook.resolve got a decision from Cache.get
\* never invokes decide and returns that cached decision's value.
C21_CacheHitSkipsDecide ==
  \A e \in Evals : \A i \in HookIdx :
    (Done(e) /\ CacheHit(e, i))
      => /\ ev[e].decideCalls = 0
         /\ ev[e].outcome = "fulfilled"
         /\ ev[e].ret = extractDecisionValue(ev[e].answers[i])

\* This step invokes cacheHook.resolve at position i for evaluation e.
CacheAsked(e, i) ==
  /\ i \in CacheIdx
  /\ ev'[e].pc = "resolve" /\ ev'[e].idx = i
  /\ ev[e].pc # "resolve" \/ ev[e].idx # i

\* C22: when the store holds decision D under an evaluation's key (the store
\* starts empty, so cacheHook.after of an earlier evaluation stored it) and
\* Cache.get does not fail, cacheHook.resolve hands exactly D to
\* runResolveHooks, and the evaluation returns D's value without calling decide.
C22_CacheRoundTrip ==
  [][\A e \in Evals : \A i \in HookIdx :
       LET key == KeyOf(e) IN
       /\ (CacheAsked(e, i) /\ Has(cache, key) /\ ev'[e].rv.kind # "throw")
            => ev'[e].rv = RV("value", cache[key], <<0, 0>>)
       /\ (ev[e].pc = "finally" /\ ev'[e].pc = "done" /\ CacheHit(e, i))
            => /\ ev[e].answers[i] = cache[key]
               /\ ev'[e].decideCalls = 0
               /\ ev'[e].outcome = "fulfilled"
               /\ ev'[e].ret = extractDecisionValue(cache[key])]_vars

\* Evaluation or caller e makes a direct call of cacheHook's callback in this
\* step, with a context whose identity is absent.
CacheCalledWithoutIdentity(e) ==
  /\ ev[e].pc = "idle" /\ ev'[e].pc # "idle"
  /\ ev'[e].identity = NoIdentity
  /\ ev'[e].idx \in CacheIdx

\* C23: a call of cacheHook.resolve with a context whose identity is absent
\* yields undefined, a call of cacheHook.after with such a context does not
\* fail, and neither calls Cache.get or Cache.set or changes the store.
C23_NoIdentityNoStoreAccess ==
  [][\A e \in Evals :
       CacheCalledWithoutIdentity(e)
         => /\ cache' = cache
            /\ ev'[e].storeCalls = 0
            /\ ev'[e].failed = {} /\ ~ev'[e].thrown
            /\ ev'[e].pc = "resolve" => ev'[e].rv = Answer]_vars

\* C23 witness: over a store that holds a decision under the bare flag key,
\* one caller got undefined from cacheHook.resolve and another called
\* cacheHook.after, both with an absent identity and a context for that flag
\* key; the store was not accessed and is as it was.
C23_Witness ==
  /\ cache = cfg.store /\ Has(cache, "beta")
  /\ \E a, b \in Evals :
       /\ \A e \in {a, b} : /\ Done(e) /\ ev[e].identity = NoIdentity
                            /\ ev[e].gate.key = "beta" /\ ev[e].idx \in CacheIdx
                            /\ ev[e].storeCalls = 0
       /\ ev[a].answers = <<Undefined>>
       /\ ev[b].ran["after"] = 1 /\ ev[b].called = {ev[b].idx}

\* The await of cacheHook.resolve of evaluation e settles in this step, and
\* Cache.get has failed.
CacheGetFails(e) ==
  /\ ev[e].pc = "resolve" /\ ev[e].idx \in CacheIdx
  /\ ev[e].rv.kind = "throw"
  /\ Len(ev'[e].answers) = Len(ev[e].answers) + 1

\* runAfterHooks of evaluation e settles in this step, and the Cache.set of
\* its cacheHook.after has failed.
CacheSetFailed(e) ==
  /\ ev[e].pc = "after" /\ ev'[e].pc # "after"
  /\ ev[e].failed \cap CacheIdx # {}

\* C24: a failing Cache.get is a miss: the step goes on to the next resolve
\* hook or, after the last, calls decide, and starts no error stage.  A
\* failing Cache.set is suppressed: with a decision of the gate's type the
\* evaluation goes on to the finally stage with that decision's value and no
\* error stage.  An evaluation that ran its after stage on a decision of the
\* gate's type returns that decision's value and invokes no error hook.
C24_CacheFailuresSuppressed ==
  /\ [][\A e \in Evals :
          /\ CacheGetFails(e) =>
               /\ ev'[e].ran["error"] = ev[e].ran["error"]
               /\ ev'[e].answers[ev[e].idx] = Failed
               /\ IF ev[e].idx < Len(hooks)
                    THEN /\ ev'[e].pc = "resolve" /\ ev'[e].idx = ev[e].idx + 1
                         /\ ev'[e].idx \in ev'[e].invoked["resolve"]
                    ELSE ev'[e].pc = "decide" /\ ev'[e].decideCalls = 1
          /\ (CacheSetFailed(e) /\ ~extractThrows(ev[e].decision, ev[e].gate)) =>
               /\ ev'[e].pc = "finally"
               /\ ev'[e].ran["error"] = 0
               /\ ev'[e].result = extractDecisionValue(ev[e].decision)]_vars
  /\ [](\A e \in Evals :
          (/\ Done(e) /\ ev[e].ran["after"] = 1
           /\ ~extractThrows(ev[e].decision, ev[e].gate))
            => /\ ev[e].outcome = "fulfilled"
               /\ ev[e].ret = extractDecisionValue(ev[e].provided)
               /\ ev[e].invoked["error"] = {})

\* C24 witness: over an empty store both Cache.get and Cache.set failed for
\* the first evaluation (the store is still empty after its after stage); it
\* called decide once, ran no error stage and returned the provider's false.
C24_Witness ==
  /\ hooks = <<"cache">>
  /\ cache = EmptyMap
  /\ Done(1)
  /\ ev[1].answers = <<Failed>>
  /\ ev[1].decideCalls = 1
  /\ ev[1].ran["after"] = 1 /\ ev[1].storeCalls = 2
  /\ ev[1].ran["error"] = 0
  /\ ev[1].outcome = "fulfilled" /\ ev[1].ret = PlainBool(FALSE)

\* Two distinct ids, one a number and the other the string of its decimal form.
SameDecimal(a, b) ==
  \/ a.kind = "number" /\ b.kind = "string" /\ b.s = NumToString(a.n)
  \/ b.kind = "number" /\ a.kind = "string" /\ a.s = NumToString(b.n)

\* This step invokes dedupeHook.resolve at position i for evaluation j.
DedupeAsked(j, i) ==
  /\ i \in DedupeIdx
  /\ ev'[j].pc = "resolve" /\ ev'[j].idx = i
  /\ ev[j].pc # "resolve" \/ ev[j].idx # i

\* The pending map of dedupeHook i holds the entry that evaluation c created.
HoldsEntryOf(i, c) ==
  /\ i \in ev[c].created
  /\ Has(pending[i], KeyOf(c)) /\ pending[i][KeyOf(c)] = c

\* C25: contexts with the same flag key whose distinct ids are a number and
\* the string of its decimal form have the same composite key; and an
\* evaluation whose dedupeHook.resolve runs while the map holds the entry of
\* an evaluation for such a twin context joins that entry: it creates none,
\* awaits the creator's promise and makes no provider call of its own there.
C25_NumberAndStringCoalesce ==
  /\ [](\A g \in cfg.gates : \A a, b \in cfg.identities :
          SameDecimal(a, b) => getKey(Context(g.key, a)) = getKey(Context(g.key, b)))
  /\ [][\A i \in HookIdx : \A j, c \in Evals :
          (/\ DedupeAsked(j, i) /\ HoldsEntryOf(i, c)
           /\ ev[c].gate.key = ev'[j].gate.key
           /\ SameDecimal(ev[c].identity, ev'[j].identity))
            => /\ pending' = pending /\ promise' = promise
               /\ <<i, c>> \in ev'[j].joined /\ i \notin ev'[j].created
               /\ ev'[j].rv = RV("promise", Undefined, <<i, c>>)
               /\ ev'[j].decideCalls = 0]_vars

\* C25 witness: the evaluation for the number 42 joined the entry of the
\* overlapping evaluation for the string "42"; both returned the value of the
\* one decision the provider was asked for.
C25_Witness ==
  \E i \in DedupeIdx : \E j, c \in Evals :
    /\ ev[c].identity = StrId("42") /\ ev[j].identity = NumId(42)
    /\ JoinedTo(j, i, c)
    /\ Done(j) /\ Done(c)
    /\ ev[c].decideCalls = 1 /\ ev[j].decideCalls = 0
    /\ ev[j].ret = ev[c].ret /\ ev[j].ret = PlainBool(FALSE)

\* C26: an evaluation that joined an entry has the flag key and, after
\* canonicalization, the distinct id of the evaluation that created it.
C26_JoinsOnlyEqualPairs ==
  \A i \in DedupeIdx : \A j, c \in Evals :
    JoinedTo(j, i, c)
      => /\ ev[j].gate.key = ev[c].gate.key
         /\ (ev[j].identity = NoIdentity) = (ev[c].identity = NoIdentity)
         /\ TemplateString(ev[j].identity) = TemplateString(ev[c].identity)

\* This step calls the after or error callback of the hook at position i for
\* evaluation or caller e.
StageCalled(e, i, stage) ==
  /\ ev'[e].ran[stage] = ev[e].ran[stage] + 1
  /\ i \in ev'[e].called

\* C27: when dedupeHook's after or error callback is called and the pending
\* map holds no entry for the context's key, the callback settles no promise
\* of that hook, leaves the map as it is and does not fail.
C27_NoEntryNoOp ==
  [][\A e \in Evals : \A i \in DedupeIdx : \A stage \in {"after", "error"} :
       (/\ StageCalled(e, i, stage)
        /\ ~Has(pending[i], getKey(Context(ev'[e].gate.key, ev'[e].identity))))
         => /\ pending'[i] = pending[i]
            /\ \A c \in Evals : promise'[<<i, c>>] = promise[<<i, c>>]
            /\ i \notin ev'[e].failed]_vars

\* C27 witness: while the map held an unsettled entry under another key, a
\* caller called dedupeHook.after or dedupeHook.error for a key the map had
\* no entry for; the call did not fail and the entry is still there, unsettled.
C27_Witness ==
  \E i \in DedupeIdx : \E c, a \in Evals :
    /\ HoldsEntryOf(i, c) /\ promise[<<i, c>>].state = "pending"
    /\ c < a
    /\ Done(a) /\ ev[a].idx = i /\ ev[a].called = {i}
    /\ ev[a].ran["after"] + ev[a].ran["error"] = 1
    /\ KeyOf(a) # KeyOf(c)
    /\ ev[a].failed = {} /\ ~ev[a].thrown

\* Every entry that dedupeHook i created under evaluation j's key is settled.
AllSettledFor(i, j) ==
  \A c \in Evals :
    (i \in ev[c].created /\ KeyOf(c) = getKey(Context(ev'[j].gate.key, ev'[j].identity)))
      => promise[<<i, c>>].state # "pending"

\* C28: no pending map holds an entry whose promise is settled; a resolve
\* call for a key all of whose entries have settled yields undefined and
\* creates a new entry; and no evaluation joins the entry of an evaluation
\* that has already returned.
C28_SettledEntriesAreGone ==
  /\ [](\A i \in DedupeIdx : \A k \in DOMAIN pending[i] :
          promise[<<i, pending[i][k]>>].state \notin {"fulfilled", "rejected"})
  /\ [][\A i \in HookIdx : \A j \in Evals :
          DedupeAsked(j, i) =>
            /\ AllSettledFor(i, j) =>
                 /\ i \in ev'[j].created /\ ev'[j].rv = Answer
                 /\ HoldsEntryOf(i, j)'
            /\ \A c \in Evals : <<i, c>> \in ev'[j].joined => ~Done(c)]_vars

\* identify has settled for evaluation e.
Identified(e) == ev[e].pc \notin {"idle", "identify"}

\* C29: an evaluation given an override identity never calls config.identify,
\* its identity is the override, and every hook callback and decide are
\* handed the override.  An evaluation without override calls config.identify
\* exactly once; either its identity is what the callback resolved to, and
\* hooks and decide are handed that; or the callback yielded no identity or
\* failed, identity resolution fails, and neither the before stage, the
\* resolve stage nor decide runs.
C29_IdentityResolution ==
  \A e \in Evals :
    ev[e].pc # "idle" =>
      IF ev[e].override # NoIdentity
        THEN /\ ev[e].identifyCalls = 0
             /\ ev[e].seen \subseteq {ev[e].override}
             /\ Identified(e) =>
                  /\ ev[e].identity = ev[e].override
                  /\ ev[e].error.type \notin {"IdentityNotFound", "IdentifyFailure"}
                  /\ ev[e].ran["before"] = 1
        ELSE /\ ev[e].identifyCalls = 1
             /\ Identified(e) =>
                  \/ /\ ev[e].identity \in cfg.identities \ {NoIdentity}
                     /\ ev[e].seen \subseteq {ev[e].identity}
                     /\ ev[e].error.type \notin {"IdentityNotFound", "IdentifyFailure"}
                     /\ ev[e].ran["before"] = 1
                  \/ /\ ev[e].identity = NoIdentity
                     /\ ev[e].error.type \in {"IdentityNotFound", "IdentifyFailure"}
                     /\ ev[e].seen \subseteq {NoIdentity}
                     /\ ev[e].ran["before"] = 0 /\ ev[e].ran["resolve"] = 0
                     /\ ev[e].decideCalls = 0

\* C29 witness: an evaluation given the override "7", while config.identify
\* would resolve to "42", returned the provider's decision without calling
\* config.identify; its hook and decide were handed the override.
C29_Witness ==
  \E e \in Evals :
    /\ Done(e) /\ ev[e].override = StrId("7")
    /\ ev[e].identifyCalls = 0 /\ ev[e].decideCalls = 1
    /\ ev[e].seen = {StrId("7")}
    /\ \A s \in {"before", "resolve", "after", "finally"} : ev[e].invoked[s] = {1}
    /\ ev[e].outcome = "fulfilled" /\ ev[e].ret = PlainBool(FALSE)

\* The failures of identity resolution, of decide and of validation.
TerminatingFailures ==
  {"IdentityNotFound", "IdentifyFailure", "ProviderFailure", "InvalidVariant",
   "TypeMismatch"}

\* C30: the error stage runs at most once per evaluation; and when a failure
\* of identity resolution, decide or validation ended the try block, the
\* error stage has run once and every registered error hook was called with
\* that failure.
C30_FailureReportedOnce ==
  \A e \in Evals :
    /\ ev[e].ran["error"] <= 1
    /\ (PastTry(e) /\ ev[e].error.type \in TerminatingFailures)
         => /\ ev[e].ran["error"] = 1
            /\ ev[e].errorArg = ev[e].error
            /\ ev[e].invoked["error"] = {i \in HookIdx : HasMethod(hooks[i], "error")}

\* C31: when every continuation that can run does run, every evaluation
\* eventually returns, whatever the registration order of dedupeHook and
\* another resolve hook.
C31_EveryEvaluationReturns == <>(\A e \in Evals : Done(e))

\* C32: the value an evaluation of a gate that declares variants returns is
\* one of the declared variants or the gate's default value.
C32_ReturnsDeclaredVariant ==
  \A e \in Evals :
    (Done(e) /\ ev[e].gate.hasVariants /\ ev[e].outcome = "fulfilled")
      => \/ ev[e].ret = ev[e].gate.defaultValue
         \/ ev[e].ret \in {PlainString(v) : v \in SeqRange(ev[e].gate.variants)}

\* C33: in an evaluation that has called decide, every registered resolve
\* hook has been invoked, and each of them failed or yielded undefined or null.
C33_OnlyDecisionEndsResolve ==
  \A e \in Evals :
    ev[e].decideCalls > 0
      => /\ ev[e].invoked["resolve"] = {i \in HookIdx : HasMethod(hooks[i], "resolve")}
         /\ Len(ev[e].answers) = Len(hooks)
         /\ \A k \in 1..Len(ev[e].answers) :
              ev[e].answers[k] \in {Failed, Undefined, Null}

\* C34: the resolve or reject function of an entry is called at most once,
\* in the step that removes the entry from the map: an entry whose promise
\* is settled was settled by one call and is in the map no more, an entry
\* whose promise is pending has never been settled and is still in the map;
\* so no later after or error call for its key reaches it again.
C34_SettledOnceRemovedOnce ==
  \A i \in DedupeIdx : \A c \in Evals :
    LET p == promise[<<i, c>>] IN
    /\ p.settles <= 1
    /\ p.state \in {"fulfilled", "rejected"} => (p.settles = 1 /\ ~HoldsEntryOf(i, c))
    /\ p.state = "pending" => (p.settles = 0 /\ HoldsEntryOf(i, c))
    /\ p.state = "none" => (p.settles = 0 /\ i \notin ev[c].created)

\* C34 witness: the creator's provider call failed and its error callback
\* rejected and removed the entry; an evaluation that had joined it then
\* called decide itself, and its after callback ran for the same key; the
\* entry was settled once.
C34_Witness ==
  \E i \in DedupeIdx : \E c, j \in Evals :
    /\ JoinedTo(j, i, c) /\ KeyOf(j) = KeyOf(c)
    /\ Done(c) /\ Done(j)
    /\ promise[<<i, c>>].state = "rejected" /\ promise[<<i, c>>].settles = 1
    /\ ev[j].ran["after"] = 1 /\ i \in ev[j].invoked["after"]
    /\ ~Has(pending[i], KeyOf(c))

\* Caller e calls a callback of the dedupeHook at position i in this step.
DedupeCalled(e, i) ==
  /\ i \in DedupeIdx
  /\ ev[e].pc = "idle" /\ ev'[e].pc # "idle"
  /\ ev'[e].idx = i

\* C35: a call of a callback of one dedupeHook leaves the map and the
\* promises of every other dedupeHook as they are; its resolve joins only an
\* entry of its own map, and creates an entry when its own map has none for
\* the key, whatever the other maps hold under that key.
C35_MapPerInstance ==
  [][\A e \in Evals : \A i \in HookIdx :
       DedupeCalled(e, i) =>
         LET key == getKey(Context(ev'[e].gate.key, ev'[e].identity)) IN
         /\ \A k \in DedupeIdx \ {i} :
              /\ pending'[k] = pending[k]
              /\ \A c \in Evals : promise'[<<k, c>>] = promise[<<k, c>>]
         /\ \A x \in ev'[e].joined :
              x[1] = i /\ Has(pending[i], key) /\ pending[i][key] = x[2]
         /\ (ev'[e].pc = "resolve" /\ ~Has(pending[i], key)) =>
              /\ ev'[e].rv = Answer /\ i \in ev'[e].created
              /\ Has(pending'[i], key) /\ pending'[i][key] = e]_vars

\* C35 witness: both hooks hold an unsettled entry under the same key, each
\* created by its own caller, after a third caller called the after callback
\* of one of them for that key while only the other held an entry: that
\* entry was left unsettled.
C35_Witness ==
  \E a, b, c \in Evals :
    /\ a < b /\ b < c
    /\ KeyOf(a) = KeyOf(b) /\ KeyOf(b) = KeyOf(c)
    /\ ev[a].created = {1} /\ HoldsEntryOf(1, a) /\ promise[<<1, a>>].state = "pending"
    /\ Done(b) /\ ev[b].idx = 2 /\ ev[b].ran["after"] = 1 /\ ev[b].called = {2}
    /\ ev[c].created = {2} /\ HoldsEntryOf(2, c) /\ promise[<<2, c>>].state = "pending"

=============================================================================
